---- MODULE Spec2Model ----
(***************************************************************************)
(* Model of the configuration fixture scripts of cpra:                     *)
(*   mock-servers/generate_monitors_from_endpoints.py  (tool "gen")        *)
(*   mock-servers/replace_endpoints.py                 (tool "sub")        *)
(*   samples/generate-yaml.py, internal/loader/generate-yaml.py            *)
(*                                                     (tool "expand")     *)
(*   internal/loader/replicate_monitors.py             (tool "repl")       *)
(* plus a harness applying compute_distribution to a bare total ("dist").  *)
(* One behaviour of the model is one run of one script: Init fixes the     *)
(* script and its inputs, the actions are the steps of its main routine.   *)
(***************************************************************************)
EXTENDS Integers, Sequences, FiniteSets, TLC

VARIABLES
    tool,                     \* which script this run executes
    pc,                       \* position in the script's main routine
    exit_code,                \* process exit status, meaningful when pc = "exit"
    report,                   \* last message printed: [stream, text]
    written,                  \* sequence of documents written to the output file
    total,                    \* compute_distribution: argument
    counts,                   \* compute_distribution: result [http, tcp, icmp]
    raw_endpoints,            \* gen: lines of the endpoint source (after urlparse)
    parsed,                   \* gen: Endpoint records parsed so far
    monitors,                 \* gen: result of generate_monitors
    endpoints,                \* sub: replacement endpoints
    yaml_data,                \* sub: input configuration tree
    existing_urls,            \* sub: result of find_urls_in_config
    url_mapping,              \* sub: dict built by replace_urls_in_config
    modified_data,            \* sub: result of replace_urls_in_config
    data,                     \* expand / repl: loaded input document
    total_monitors_required,  \* expand: argv[1]
    all_monitors,             \* expand: output list
    replications,             \* repl: argv[1]
    replicated_monitors       \* repl: output list

vars == <<tool, pc, exit_code, report, written, total, counts, raw_endpoints,
          parsed, monitors, endpoints, yaml_data, existing_urls, url_mapping,
          modified_data, data, total_monitors_required, all_monitors,
          replications, replicated_monitors>>

ioVars == <<exit_code, report, written>>
distVars == <<total, counts>>
genVars == <<raw_endpoints, parsed, monitors>>
subVars == <<endpoints, yaml_data, existing_urls, url_mapping, modified_data>>
expandVars == <<total_monitors_required, all_monitors>>
replVars == <<replications, replicated_monitors>>

(***************************************************************************)
(* Bounds of the model.                                                    *)
(***************************************************************************)
MaxTotal == 40        \* largest total handed to the distribution harness
MaxLines == 11        \* longest endpoint batch
MaxItems == 2         \* longest top-level sequence of a configuration tree
MaxNew == 3           \* longest replacement endpoint list
MaxExisting == 2      \* longest monitors list of an input document
MaxTarget == 5        \* largest target count
MaxFactor == 2        \* largest replication factor

NoReport == [stream |-> "", text |-> ""]
Stdout(text) == [stream |-> "stdout", text |-> text]
Stderr(text) == [stream |-> "stderr", text |-> text]

RECURSIVE Zeros(_)
Zeros(k) == IF k <= 0 THEN "" ELSE "0" \o Zeros(k - 1)

\* f"{idx:05d}": decimal digits, zero-padded on the left to width 5.
Pad05d(idx) ==
    LET s == ToString(idx)
    IN  IF Len(s) >= 5 THEN s ELSE Zeros(5 - Len(s)) \o s

(***************************************************************************)
(* generate_monitors_from_endpoints.py                                     *)
(***************************************************************************)

\* int(math.floor(total * 0.8)) and int(math.floor(total * 0.1)).  The double
\* product rounds to the exact tenth-floor for every total below 2^31 (the
\* range of the integers here), so the share is computed in integers.
FloorTenths(n, tenths) == (n * tenths) \div 10

\* Mutant: the loop never advances idx, the whole shortfall goes to http.
RECURSIVE DistributeRemainder_NoCycle(_, _, _)
DistributeRemainder_NoCycle(buckets, remainder, idx) ==
    IF remainder > 0
    THEN DistributeRemainder_NoCycle([buckets EXCEPT ![idx] = @ + 1],
                                     remainder - 1, idx)
    ELSE buckets

\* while remainder > 0: buckets[idx] += 1; remainder -= 1; idx = (idx+1) % 3
\* (idx is 1-based here).
RECURSIVE DistributeRemainder(_, _, _)
DistributeRemainder(buckets, remainder, idx) ==
    IF remainder > 0
    THEN DistributeRemainder([buckets EXCEPT ![idx] = @ + 1],
                             remainder - 1,
                             (idx % Len(buckets)) + 1)
    ELSE buckets

\* Mutant: the hand-out starts at tcp instead of http.
compute_distribution_StartAtTcp(n) ==
    LET http == FloorTenths(n, 8)
        tcp == FloorTenths(n, 1)
        icmp == FloorTenths(n, 1)
        remainder == n - (http + tcp + icmp)
    IN  DistributeRemainder(<<http, tcp, icmp>>, remainder, 2)

compute_distribution(n) ==
    LET http == FloorTenths(n, 8)
        tcp == FloorTenths(n, 1)
        icmp == FloorTenths(n, 1)
        remainder == n - (http + tcp + icmp)
    IN  DistributeRemainder(<<http, tcp, icmp>>, remainder, 1)

\* An endpoint line is the stripped text together with what urlparse makes of
\* it: scheme, netloc, hostname and port (<<>> when absent, <<p>> when given).
\* urlparse's port property raises ValueError outside 0..65535.
PortRaises(line) == line.port # <<>> /\ ~(line.port[1] \in 0..65535)

\* Mutant: a missing port is never an error.
ParseError_NoPortCheck(line) ==
    IF line.scheme = "" \/ line.netloc = ""
    THEN "Invalid endpoint '" \o line.raw \o "'. Expected absolute URL."
    ELSE IF line.port # <<>> /\ ~(line.port[1] \in 0..65535)
    THEN "Port out of range 0-65535"
    ELSE ""

\* Endpoint.parse: the message of the ValueError it raises, "" when it returns.
ParseError(line) ==
    IF line.scheme = "" \/ line.netloc = ""
    THEN "Invalid endpoint '" \o line.raw \o "'. Expected absolute URL."
    ELSE IF PortRaises(line)
    THEN "Port out of range 0-65535"
    ELSE IF line.port = <<>> /\ line.scheme \notin {"http", "https"}
    THEN "Endpoint '" \o line.raw \o "' missing explicit port."
    ELSE ""

\* Endpoint.parse: the record it returns when it raises nothing.
ParseEndpoint(line) ==
    [scheme |-> line.scheme,
     host |-> line.hostname,
     port |-> IF line.port = <<>>
              THEN (IF line.scheme = "http" THEN 80 ELSE 443)
              ELSE line.port[1],
     path |-> IF line.path = "" THEN "/" ELSE line.path,
     raw |-> line.raw]

\* chunk_endpoints: the three slices, and whether the counts cover the list.
chunk_endpoints(eps, cnts) ==
    LET s1 == cnts[1]
        s2 == s1 + cnts[2]
        s3 == s2 + cnts[3]
    IN  [ok |-> (s3 = Len(eps)),
         slices |-> <<SubSeq(eps, 1, s1), SubSeq(eps, s1 + 1, s2),
                      SubSeq(eps, s2 + 1, s3)>>]

HTTP_TEMPLATE ==
    [name |-> "",
     pulse_check |-> [type |-> "http", interval |-> "5s", timeout |-> "3s",
                      max_failures |-> 3,
                      config |-> [retries |-> 2, method |-> "GET", url |-> ""]],
     codes |-> [red |-> [dispatch |-> TRUE, notify |-> "pagerduty",
                         config |-> [url |-> "pager"]],
                yellow |-> [dispatch |-> TRUE, notify |-> "log",
                            config |-> [file |-> "test-code.txt"]]]]

TCP_TEMPLATE ==
    [name |-> "",
     pulse_check |-> [type |-> "tcp", interval |-> "10s", timeout |-> "5s",
                      max_failures |-> 3,
                      config |-> [retries |-> 3, host |-> "", port |-> 0]],
     codes |-> [red |-> [dispatch |-> TRUE, notify |-> "pagerduty",
                         config |-> [url |-> "pager"]],
                yellow |-> [dispatch |-> TRUE, notify |-> "log",
                            config |-> [file |-> "test-code.txt"]]]]

ICMP_TEMPLATE ==
    [name |-> "",
     pulse_check |-> [type |-> "icmp", interval |-> "15s", timeout |-> "5s",
                      max_failures |-> 3,
                      config |-> [retries |-> 3, host |-> ""]],
     codes |-> [red |-> [dispatch |-> TRUE, notify |-> "log",
                         config |-> [file |-> "critical_alerts.log"]],
                yellow |-> [dispatch |-> TRUE, notify |-> "log",
                            config |-> [file |-> "warning_alerts.log"]]]]

MonitorName(prefix, idx, port) ==
    prefix \o " Monitor " \o Pad05d(idx) \o " (port " \o ToString(port) \o ")"

\* enumerate(endpoints, start=1 + offset): the k-th endpoint gets index k + offset.
build_http_monitors(eps, offset) ==
    [k \in 1..Len(eps) |->
        [HTTP_TEMPLATE EXCEPT
            !.name = MonitorName("HTTP", k + offset, eps[k].port),
            !.pulse_check.config.url = eps[k].raw]]

build_tcp_monitors(eps, offset) ==
    [k \in 1..Len(eps) |->
        [TCP_TEMPLATE EXCEPT
            !.name = MonitorName("TCP", k + offset, eps[k].port),
            !.pulse_check.config.host = eps[k].host,
            !.pulse_check.config.port = eps[k].port]]

\* spec.setdefault("metadata", {})["port_hint"] adds a key the template lacks.
build_icmp_monitors(eps, offset) ==
    [k \in 1..Len(eps) |->
        LET spec == [ICMP_TEMPLATE EXCEPT
                        !.name = MonitorName("Ping", k + offset, eps[k].port),
                        !.pulse_check.config.host = eps[k].host]
        IN  [f \in DOMAIN spec \cup {"metadata"} |->
                IF f = "metadata" THEN [port_hint |-> eps[k].port] ELSE spec[f]]]

\* Mutant: the numbering runs on across the groups (offsets passed on).
BuildMonitors_RunningOffset(eps, cnts) ==
    LET ch == chunk_endpoints(eps, cnts)
    IN  build_http_monitors(ch.slices[1], 0)
            \o build_tcp_monitors(ch.slices[2], cnts[1])
            \o build_icmp_monitors(ch.slices[3], cnts[1] + cnts[2])

\* Mutant: the TCP group is emitted before the HTTP group.
BuildMonitors_TcpFirst(eps, cnts) ==
    LET ch == chunk_endpoints(eps, cnts)
    IN  build_tcp_monitors(ch.slices[2], 0)
            \o build_http_monitors(ch.slices[1], 0)
            \o build_icmp_monitors(ch.slices[3], 0)

\* generate_monitors after the parse: distribution, slicing and the builders.
BuildMonitors(eps, cnts) ==
    LET ch == chunk_endpoints(eps, cnts)
    IN  build_http_monitors(ch.slices[1], 0)
            \o build_tcp_monitors(ch.slices[2], 0)
            \o build_icmp_monitors(ch.slices[3], 0)

(***************************************************************************)
(* replace_endpoints.py                                                    *)
(* A configuration tree is a mapping (ordered key/value entries), a        *)
(* sequence, or a scalar (string or integer).                              *)
(***************************************************************************)
StrNode(s) == [t |-> "str", s |-> s]
IntNode(n) == [t |-> "int", n |-> n]
SeqNode(items) == [t |-> "seq", items |-> items]
MapNode(kv) == [t |-> "map", kv |-> kv]
Entry(k, v) == [k |-> k, v |-> v]

\* Mutant: only the url key is recognised.
IsUrlEntry_UrlOnly(e) == e.k = "url" /\ e.v.t = "str"

\* key in ['url', 'host'] and isinstance(value, str)
IsUrlEntry(e) == e.k \in {"url", "host"} /\ e.v.t = "str"

RECURSIVE find_urls_in_config(_)
RECURSIVE FindInEntries(_)
RECURSIVE FindInItems(_)
\* traverse(obj) of find_urls_in_config: the strings appended, in order.
find_urls_in_config(obj) ==
    IF obj.t = "map" THEN FindInEntries(obj.kv)
    ELSE IF obj.t = "seq" THEN FindInItems(obj.items)
    ELSE <<>>
FindInEntries(kv) ==
    IF kv = <<>> THEN <<>>
    ELSE (IF IsUrlEntry(Head(kv)) THEN <<Head(kv).v.s>>
          ELSE find_urls_in_config(Head(kv).v))
         \o FindInEntries(Tail(kv))
FindInItems(items) ==
    IF items = <<>> THEN <<>>
    ELSE find_urls_in_config(Head(items)) \o FindInItems(Tail(items))

\* Mutant: every draw yields the first replacement.
CycleAt_First(new_urls, j) == new_urls[1]

\* next(new_urls_cycle) at the j-th draw (j from 1) of cycle(new_urls).
CycleAt(new_urls, j) == new_urls[((j - 1) % Len(new_urls)) + 1]

\* Mutant: a key already present keeps its first replacement.
RECURSIVE MappingAfter_FirstWins(_, _, _)
MappingAfter_FirstWins(old_urls, new_urls, j) ==
    IF j = 0 THEN <<>>
    ELSE MappingAfter_FirstWins(old_urls, new_urls, j - 1)
            @@ (old_urls[j] :> CycleAt(new_urls, j))

\* {url: next(new_urls_cycle) for url in old_urls}: one draw per element of
\* old_urls, a later assignment to the same key replacing the earlier one.
RECURSIVE MappingAfter(_, _, _)
MappingAfter(old_urls, new_urls, j) ==
    IF j = 0 THEN <<>>
    ELSE (old_urls[j] :> CycleAt(new_urls, j))
            @@ MappingAfter(old_urls, new_urls, j - 1)

BuildUrlMapping(old_urls, new_urls) ==
    MappingAfter(old_urls, new_urls, Len(old_urls))

RECURSIVE replace_recursive(_, _)
RECURSIVE ReplaceEntries(_, _)
RECURSIVE ReplaceItems(_, _)
replace_recursive(obj, mapping) ==
    IF obj.t = "map" THEN MapNode(ReplaceEntries(obj.kv, mapping))
    ELSE IF obj.t = "seq" THEN SeqNode(ReplaceItems(obj.items, mapping))
    ELSE obj
ReplaceEntries(kv, mapping) ==
    IF kv = <<>> THEN <<>>
    ELSE <<(IF IsUrlEntry(Head(kv)) /\ Head(kv).v.s \in DOMAIN mapping
            THEN Entry(Head(kv).k, StrNode(mapping[Head(kv).v.s]))
            ELSE Entry(Head(kv).k, replace_recursive(Head(kv).v, mapping)))>>
         \o ReplaceEntries(Tail(kv), mapping)
ReplaceItems(items, mapping) ==
    IF items = <<>> THEN <<>>
    ELSE <<replace_recursive(Head(items), mapping)>>
         \o ReplaceItems(Tail(items), mapping)

replace_urls_in_config(config, old_urls, new_urls) ==
    replace_recursive(config, BuildUrlMapping(old_urls, new_urls))

(***************************************************************************)
(* generate-yaml.py (samples and internal/loader) and replicate_monitors.py*)
(* A monitor is a record; its name key may be absent.                      *)
(***************************************************************************)
\* monitor['name'] = name on a (deep) copy of monitor
SetName(m, name) ==
    [f \in DOMAIN m \cup {"name"} |-> IF f = "name" THEN name ELSE m[f]]

\* data.get('monitors', [])
GetMonitors(d) == IF "monitors" \in DOMAIN d THEN d.monitors ELSE <<>>

\* f'Monitor-{len(existing_monitors) + i + 1}'
ExpandName(S, i) == "Monitor-" \o ToString(S + i + 1)

\* Mutant: every added monitor copies the first existing one.
RECURSIVE ExpandLoop_NoCycle(_, _, _, _)
ExpandLoop_NoCycle(existing, all, i, monitors_to_add) ==
    IF i < monitors_to_add
    THEN ExpandLoop_NoCycle(existing,
                            Append(all, SetName(existing[1],
                                                ExpandName(Len(existing), i))),
                            i + 1, monitors_to_add)
    ELSE all

\* for i in range(monitors_to_add): append a renamed copy of existing[i % S]
RECURSIVE ExpandLoop(_, _, _, _)
ExpandLoop(existing, all, i, monitors_to_add) ==
    IF i < monitors_to_add
    THEN ExpandLoop(existing,
                    Append(all, SetName(existing[(i % Len(existing)) + 1],
                                        ExpandName(Len(existing), i))),
                    i + 1, monitors_to_add)
    ELSE all

ExpandMonitors(existing, required) ==
    ExpandLoop(existing, existing, 0, required - Len(existing))

\* new_monitor.get('name', 'Unnamed Monitor')
OriginalName(m) == IF "name" \in DOMAIN m THEN m.name ELSE "Unnamed Monitor"

\* Mutant: the pass index is left out of the name.
CopyName_NoIndex(m, i) == OriginalName(m) \o " - Copy"

\* f"{original_name} - Copy {i}"
CopyName(m, i) == OriginalName(m) \o " - Copy " \o ToString(i)

\* for monitor in original_monitors: append the renamed copy (one pass)
RECURSIVE ReplicatePass(_, _, _)
ReplicatePass(originals, k, i) ==
    IF k > Len(originals) THEN <<>>
    ELSE <<SetName(originals[k], CopyName(originals[k], i))>>
         \o ReplicatePass(originals, k + 1, i)

\* for i in range(1, n + 1): one pass each
RECURSIVE ReplicateLoop(_, _, _)
ReplicateLoop(originals, i, n) ==
    IF i > n THEN <<>>
    ELSE ReplicatePass(originals, 1, i) \o ReplicateLoop(originals, i + 1, n)

\* Mutant: range(n + 1) instead of range(1, n + 1).
ReplicateMonitors_FromZero(originals, n) == ReplicateLoop(originals, 0, n)

ReplicateMonitors(originals, n) == ReplicateLoop(originals, 1, n)

(***************************************************************************)
(* Inputs.                                                                 *)
(***************************************************************************)
RECURSIVE SeqsUpTo(_, _)
SeqsUpTo(S, n) ==
    IF n = 0 THEN {<<>>}
    ELSE LET shorter == SeqsUpTo(S, n - 1)
         IN  shorter \cup {Append(q, x) : q \in {r \in shorter : Len(r) = n - 1}, x \in S}

Line(raw, scheme, netloc, hostname, port, path) ==
    [raw |-> raw, scheme |-> scheme, netloc |-> netloc, hostname |-> hostname,
     port |-> port, path |-> path]

GoodLines ==
    <<Line("http://a", "http", "a", "a", <<>>, ""),
      Line("https://b:8443/x", "https", "b:8443", "b", <<8443>>, "/x"),
      Line("tcp://c:9000", "tcp", "c:9000", "c", <<9000>>, "")>>

BadLines ==
    {Line("not-a-url", "", "", "", <<>>, "not-a-url"),
     Line("//d:1", "", "d:1", "d", <<1>>, ""),
     Line("http:///p", "http", "", "", <<>>, "/p"),
     Line("tcp://c", "tcp", "c", "c", <<>>, ""),
     Line("http://a:70000", "http", "a:70000", "a", <<70000>>, "")}

GoodBatch(n, off) == [k \in 1..n |-> GoodLines[((k + off) % Len(GoodLines)) + 1]]

\* Endpoint batches: well-formed ones of every length, and the same with one
\* line, at any position, replaced by a malformed one.
Batches ==
    {GoodBatch(n, off) : n \in 0..MaxLines, off \in 0..(Len(GoodLines) - 1)}
    \cup UNION {{[GoodBatch(n, off) EXCEPT ![p] = b] : p \in 1..n, b \in BadLines} :
                    n \in 1..MaxLines, off \in 0..(Len(GoodLines) - 1)}

Scalars == {StrNode("u1"), StrNode("u2"), IntNode(7)}

FlatMaps == {MapNode(<<Entry(k, s)>>) : k \in {"url", "host", "name"}, s \in Scalars}

NestedMaps ==
    {MapNode(<<Entry("name", StrNode("u1")), Entry(k, m)>>) :
        k \in {"url", "config"},
        m \in {MapNode(<<Entry("host", StrNode("u2")), Entry("port", IntNode(7)),
                        Entry("url", StrNode("u1"))>>),
               SeqNode(<<StrNode("u1"), MapNode(<<Entry("url", StrNode("u1"))>>)>>)}}

Items == FlatMaps \cup NestedMaps

Documents == {MapNode(<<Entry("monitors", SeqNode(q))>>) : q \in SeqsUpTo(Items, MaxItems)}

AllNew == <<"n1", "n2", "n3", "n4", "n5">>
NewLists == {SubSeq(AllNew, 1, L) : L \in 0..MaxNew}

MonitorPool ==
    {[name |-> "A", type |-> "http"],
     [name |-> "B", type |-> "tcp"],
     [name |-> "Monitor-3", type |-> "icmp"],
     [name |-> "A - Copy 1", type |-> "http"],
     [type |-> "tcp"]}

\* Loaded documents: with a monitors list, or without the monitors key.
InputData ==
    {[monitors |-> q] : q \in SeqsUpTo(MonitorPool, MaxExisting)}
    \cup {[version |-> "1"]}

EmptyTree == MapNode(<<>>)

Init ==
    /\ tool \in {"dist", "gen", "sub", "expand", "repl"}
    /\ pc = "start"
    /\ exit_code = 0
    /\ report = NoReport
    /\ written = <<>>
    /\ counts = <<0, 0, 0>>
    /\ parsed = <<>>
    /\ monitors = <<>>
    /\ existing_urls = <<>>
    /\ url_mapping = <<>>
    /\ modified_data = EmptyTree
    /\ all_monitors = <<>>
    /\ replicated_monitors = <<>>
    /\ total \in (IF tool = "dist" THEN 0..MaxTotal ELSE {0})
    /\ raw_endpoints \in (IF tool = "gen" THEN Batches ELSE {<<>>})
    /\ endpoints \in (IF tool = "sub" THEN NewLists ELSE {<<>>})
    /\ yaml_data \in (IF tool = "sub" THEN Documents ELSE {EmptyTree})
    /\ data \in (IF tool \in {"expand", "repl"} THEN InputData ELSE {[version |-> "1"]})
    /\ total_monitors_required \in (IF tool = "expand" THEN 0..MaxTarget ELSE {0})
    /\ replications \in (IF tool = "repl" THEN (-1)..MaxFactor ELSE {0})

Exit(code, msg) ==
    /\ pc' = "exit"
    /\ exit_code' = code
    /\ report' = msg

(***************************************************************************)
(* Harness: compute_distribution applied to a bare total.                  *)
(***************************************************************************)
Distribute ==
    /\ tool = "dist" /\ pc = "start"
    /\ counts' = compute_distribution(total)
    /\ pc' = "done"
    /\ UNCHANGED <<ioVars, total, genVars, subVars, data, expandVars, replVars, tool>>

(***************************************************************************)
(* generate_monitors_from_endpoints.py: main                               *)
(***************************************************************************)
\* if not raw_endpoints: print("No endpoints provided."); sys.exit(1)
GenStart ==
    /\ tool = "gen" /\ pc = "start"
    /\ IF raw_endpoints = <<>>
       THEN Exit(1, Stderr("No endpoints provided."))
       ELSE pc' = "parse" /\ UNCHANGED <<exit_code, report>>
    /\ UNCHANGED <<written, distVars, genVars, subVars, data, expandVars, replVars, tool>>

\* parsed = [Endpoint.parse(ep) for ep in endpoints], one element per step;
\* a ValueError leaves generate_monitors and main prints it and exits 1.
GenParseNext ==
    /\ tool = "gen" /\ pc = "parse"
    /\ Len(parsed) < Len(raw_endpoints)
    /\ LET line == raw_endpoints[Len(parsed) + 1]
       IN  IF ParseError(line) # ""
           THEN /\ Exit(1, Stderr("Error: " \o ParseError(line)))
                /\ UNCHANGED parsed
           ELSE /\ parsed' = Append(parsed, ParseEndpoint(line))
                /\ UNCHANGED <<pc, exit_code, report>>
    /\ UNCHANGED <<written, distVars, raw_endpoints, monitors, subVars, data,
                   expandVars, replVars, tool>>

\* counts = compute_distribution(len(parsed)); chunk_endpoints; the builders.
GenBuild ==
    /\ tool = "gen" /\ pc = "parse"
    /\ Len(parsed) = Len(raw_endpoints)
    /\ LET cnts == compute_distribution(Len(parsed))
       IN  /\ counts' = cnts
           /\ IF chunk_endpoints(parsed, cnts).ok
              THEN /\ monitors' = BuildMonitors(parsed, cnts)
                   /\ pc' = "write"
                   /\ UNCHANGED <<exit_code, report>>
              ELSE /\ Exit(1, Stderr("Error: Distribution counts do not match endpoint total."))
                   /\ UNCHANGED monitors
    /\ UNCHANGED <<written, total, raw_endpoints, parsed, subVars, data,
                   expandVars, replVars, tool>>

\* yaml.dump({"monitors": monitors}, fh, ...); print("Wrote ...")
GenWrite ==
    /\ tool = "gen" /\ pc = "write"
    /\ written' = Append(written, [monitors |-> monitors])
    /\ Exit(0, Stdout("Wrote " \o ToString(Len(monitors)) \o " monitors to out.yaml."))
    /\ UNCHANGED <<distVars, genVars, subVars, data, expandVars, replVars, tool>>

(***************************************************************************)
(* replace_endpoints.py: main                                              *)
(***************************************************************************)
\* Mutant: the empty replacement list is not rejected.
SubLoadEndpoints_NoCheck ==
    /\ tool = "sub" /\ pc = "start"
    /\ pc' = "load"
    /\ report' = Stdout("Loading endpoints from file...")
    /\ UNCHANGED <<exit_code, written, distVars, genVars, subVars, data, expandVars,
                   replVars, tool>>

\* print("Loading endpoints from file..."); endpoints = load_endpoints_from_file(...)
\* if not endpoints: print("Error: No endpoints found.", file=sys.stderr); sys.exit(1)
SubLoadEndpoints ==
    /\ tool = "sub" /\ pc = "start"
    /\ IF endpoints = <<>>
       THEN Exit(1, Stderr("Error: No endpoints found."))
       ELSE /\ pc' = "load"
            /\ report' = Stdout("Loading endpoints from file...")
            /\ UNCHANGED exit_code
    /\ UNCHANGED <<written, distVars, genVars, subVars, data, expandVars, replVars, tool>>

\* print("Loading YAML file..."); yaml_data = load_yaml_file(args.yaml_input)
SubLoadYaml ==
    /\ tool = "sub" /\ pc = "load"
    /\ pc' = "find"
    /\ report' = Stdout("Loading YAML file...")
    /\ UNCHANGED <<exit_code, written, distVars, genVars, subVars, data, expandVars,
                   replVars, tool>>

\* print(f"Found {len(existing_urls)} URLs/hosts to replace")
FoundMessage(urls) == "Found " \o ToString(Len(urls)) \o " URLs/hosts to replace"

\* Mutant: no early return when nothing was found.
SubFind_NoEarlyReturn ==
    /\ tool = "sub" /\ pc = "find"
    /\ existing_urls' = find_urls_in_config(yaml_data)
    /\ pc' = "replace"
    /\ report' = Stdout(FoundMessage(existing_urls'))
    /\ UNCHANGED <<exit_code, written, distVars, genVars, endpoints, yaml_data,
                   url_mapping, modified_data, data, expandVars, replVars, tool>>

\* print("Finding URLs to replace..."); existing_urls = find_urls_in_config(yaml_data)
\* print(f"Found {len(existing_urls)} ..."); print "No URLs..." and return when none
SubFind ==
    /\ tool = "sub" /\ pc = "find"
    /\ existing_urls' = find_urls_in_config(yaml_data)
    /\ IF existing_urls' = <<>>
       THEN Exit(0, Stdout("No URLs/hosts found to replace. Exiting."))
       ELSE /\ pc' = "replace"
            /\ report' = Stdout(FoundMessage(existing_urls'))
            /\ UNCHANGED exit_code
    /\ UNCHANGED <<written, distVars, genVars, endpoints, yaml_data, url_mapping,
                   modified_data, data, expandVars, replVars, tool>>

\* print("Replacing URLs...")
\* modified_data = replace_urls_in_config(yaml_data, existing_urls, cycle(endpoints))
SubReplace ==
    /\ tool = "sub" /\ pc = "replace"
    /\ url_mapping' = BuildUrlMapping(existing_urls, endpoints)
    /\ modified_data' = replace_urls_in_config(yaml_data, existing_urls, endpoints)
    /\ pc' = "save"
    /\ report' = Stdout("Replacing URLs...")
    /\ UNCHANGED <<exit_code, written, distVars, genVars, endpoints, yaml_data,
                   existing_urls, data, expandVars, replVars, tool>>

\* The mapping keys of the input documents in ascending string order, the
\* order sorted() gives them.
SortedKeys == <<"config", "host", "monitors", "name", "port", "url">>

KeyRank(k) == CHOOSE i \in 1..Len(SortedKeys) : SortedKeys[i] = k

\* Insert entry e into a sequence of entries already ascending by key.
RECURSIVE InsertByKey(_, _)
InsertByKey(e, kv) ==
    IF kv = <<>> THEN <<e>>
    ELSE IF KeyRank(e.k) < KeyRank(Head(kv).k) THEN <<e>> \o kv
    ELSE <<Head(kv)>> \o InsertByKey(e, Tail(kv))

\* yaml.dump(data, file, default_flow_style=False, indent=2): sort_keys is left
\* at its default True, so every mapping is emitted with its keys sorted; the
\* tree below is the document read back from the written file.
RECURSIVE DumpSorted(_)
RECURSIVE DumpEntries(_)
RECURSIVE DumpItems(_)
DumpSorted(obj) ==
    IF obj.t = "map" THEN MapNode(DumpEntries(obj.kv))
    ELSE IF obj.t = "seq" THEN SeqNode(DumpItems(obj.items))
    ELSE obj

DumpEntries(kv) ==
    IF kv = <<>> THEN <<>>
    ELSE InsertByKey(Entry(Head(kv).k, DumpSorted(Head(kv).v)), DumpEntries(Tail(kv)))

DumpItems(items) ==
    IF items = <<>> THEN <<>>
    ELSE <<DumpSorted(Head(items))>> \o DumpItems(Tail(items))

save_yaml_file(tree) == DumpSorted(tree)

\* print("Saving modified YAML to ..."); save_yaml_file(modified_data, args.yaml_output)
\* print("Done!")
SubSave ==
    /\ tool = "sub" /\ pc = "save"
    /\ written' = Append(written, save_yaml_file(modified_data))
    /\ Exit(0, Stdout("Done!"))
    /\ UNCHANGED <<distVars, genVars, subVars, data, expandVars, replVars, tool>>

(***************************************************************************)
(* generate-yaml.py                                                        *)
(***************************************************************************)
\* existing_monitors = data.get('monitors', []); exit() when it is empty
ExpandLoad ==
    /\ tool = "expand" /\ pc = "start"
    /\ IF GetMonitors(data) = <<>>
       THEN Exit(0, Stdout("No monitors found in test.yaml"))
       ELSE pc' = "generate" /\ UNCHANGED <<exit_code, report>>
    /\ UNCHANGED <<written, distVars, genVars, subVars, data, expandVars, replVars, tool>>

\* all_monitors = deepcopy(existing_monitors), then the append loop
ExpandGenerate ==
    /\ tool = "expand" /\ pc = "generate"
    /\ all_monitors' = ExpandMonitors(GetMonitors(data), total_monitors_required)
    /\ pc' = "write"
    /\ UNCHANGED <<ioVars, distVars, genVars, subVars, data, total_monitors_required,
                   replVars, tool>>

\* data['monitors'] = all_monitors; yaml.dump(data, f, ...); print(...)
ExpandWrite ==
    /\ tool = "expand" /\ pc = "write"
    /\ data' = [data EXCEPT !.monitors = all_monitors]
    /\ written' = Append(written, data')
    /\ Exit(0, Stdout("Successfully generated " \o ToString(Len(all_monitors))
                        \o " monitors in out.yaml"))
    /\ UNCHANGED <<distVars, genVars, subVars, expandVars, replVars, tool>>

(***************************************************************************)
(* replicate_monitors.py                                                   *)
(***************************************************************************)
\* __main__: if replications <= 0: print("Error: ...") else replicate_monitors(...)
ReplArgs ==
    /\ tool = "repl" /\ pc = "start"
    /\ IF replications <= 0
       THEN Exit(0, Stdout("Error: Number of replications must be a positive integer."))
       ELSE pc' = "load" /\ UNCHANGED <<exit_code, report>>
    /\ UNCHANGED <<written, distVars, genVars, subVars, data, expandVars, replVars, tool>>

\* if 'monitors' not in data or not isinstance(data['monitors'], list): return
ReplLoad ==
    /\ tool = "repl" /\ pc = "load"
    /\ IF "monitors" \notin DOMAIN data
       THEN Exit(0, Stdout("Error: 'monitors' key not found or is not a list in the input file."))
       ELSE pc' = "replicate" /\ UNCHANGED <<exit_code, report>>
    /\ UNCHANGED <<written, distVars, genVars, subVars, data, expandVars, replVars, tool>>

\* the two nested loops filling replicated_monitors
ReplReplicate ==
    /\ tool = "repl" /\ pc = "replicate"
    /\ replicated_monitors' = ReplicateMonitors(data.monitors, replications)
    /\ pc' = "write"
    /\ UNCHANGED <<ioVars, distVars, genVars, subVars, data, expandVars, replications, tool>>

\* yaml.dump({'monitors': replicated_monitors}, f, ...); the two prints, of
\* which report keeps the last
ReplWrite ==
    /\ tool = "repl" /\ pc = "write"
    /\ written' = Append(written, [monitors |-> replicated_monitors])
    /\ Exit(0, Stdout("Generated " \o ToString(Len(replicated_monitors))
                        \o " total monitors in 'replicated_test.yaml'."))
    /\ UNCHANGED <<distVars, genVars, subVars, data, expandVars, replVars, tool>>

Next ==
    \/ Distribute
    \/ GenStart \/ GenParseNext \/ GenBuild \/ GenWrite
    \/ SubLoadEndpoints \/ SubLoadYaml \/ SubFind \/ SubReplace \/ SubSave
    \/ ExpandLoad \/ ExpandGenerate \/ ExpandWrite
    \/ ReplArgs \/ ReplLoad \/ ReplReplicate \/ ReplWrite

Spec == Init /\ [][Next]_vars

(***************************************************************************)
(* Properties.                                                             *)
(***************************************************************************)
Distinct(q) == \A a, b \in 1..Len(q) : a # b => q[a] # q[b]

Named(q) == \A k \in 1..Len(q) : "name" \in DOMAIN q[k]

NamesOf(q) == [k \in 1..Len(q) |-> q[k].name]

\* c is m with, at most, another name.
DiffersOnlyInName(c, m) ==
    /\ DOMAIN c = DOMAIN m \cup {"name"}
    /\ \A f \in DOMAIN m \ {"name"} : c[f] = m[f]

\* f is floor(n * tenths / 10), and c is within 1 of it.
WithinOneOfShare(c, n, tenths) ==
    \E f \in 0..n : /\ 10 * f <= tenths * n
                    /\ tenths * n < 10 * (f + 1)
                    /\ c - f \in {-1, 0, 1}

DistributionComputed ==
    \/ tool = "dist" /\ pc = "done"
    \/ tool = "gen" /\ pc = "write"

DistributedTotal == IF tool = "dist" THEN total ELSE Len(parsed)

\* C1: for every total N >= 0 the three counts are non-negative, sum to N,
\* and each is within 1 of floor(N x fraction) for 0.80, 0.10, 0.10.
C1_DistributionSumsToTotal ==
    DistributionComputed =>
        /\ Len(counts) = 3
        /\ \A b \in 1..3 : counts[b] >= 0
        /\ counts[1] + counts[2] + counts[3] = DistributedTotal
        /\ WithinOneOfShare(counts[1], DistributedTotal, 8)
        /\ WithinOneOfShare(counts[2], DistributedTotal, 1)
        /\ WithinOneOfShare(counts[3], DistributedTotal, 1)

\* C1 witness: total 7 has a shortfall of 2, handed to http and tcp.
C1_Witness ==
    tool = "dist" /\ pc = "done" /\ total = 7 /\ counts = <<6, 1, 0>>

GenBuilt == tool = "gen" /\ (pc = "write" \/ (pc = "exit" /\ written # <<>>))

IsHttpFor(m, line) ==
    m.pulse_check.type = "http" /\ m.pulse_check.config.url = line.raw
IsTcpFor(m, line) ==
    m.pulse_check.type = "tcp" /\ m.pulse_check.config.host = line.hostname
IsIcmpFor(m, line) ==
    m.pulse_check.type = "icmp" /\ m.pulse_check.config.host = line.hostname

\* C2: N well-formed endpoints give exactly N monitors with pairwise distinct
\* names, the HTTP group first, then the TCP group, then the ICMP group, each
\* group a contiguous slice of the input in input order.
C2_MonitorsGroupedAndUnique ==
    GenBuilt =>
        LET N == Len(raw_endpoints)
        IN  /\ Len(monitors) = N
            /\ Distinct(NamesOf(monitors))
            /\ \E h \in 0..N : \E t \in 0..(N - h) :
                  /\ \A k \in 1..h : IsHttpFor(monitors[k], raw_endpoints[k])
                  /\ \A k \in (h + 1)..(h + t) : IsTcpFor(monitors[k], raw_endpoints[k])
                  /\ \A k \in (h + t + 1)..N : IsIcmpFor(monitors[k], raw_endpoints[k])
            /\ (pc = "exit" => written = <<[monitors |-> monitors]>>)

\* C2 witness: ten endpoints written, all three groups non-empty.
C2_Witness ==
    /\ tool = "gen" /\ pc = "exit" /\ written # <<>>
    /\ Len(monitors) = 10
    /\ monitors[8].pulse_check.type = "http"
    /\ monitors[9].pulse_check.type = "tcp"
    /\ monitors[10].pulse_check.type = "icmp"

RECURSIVE FirstOccurrences(_)
\* q without the repeated occurrences of a value, in first-occurrence order.
FirstOccurrences(q) ==
    IF q = <<>> THEN <<>>
    ELSE LET front == FirstOccurrences(SubSeq(q, 1, Len(q) - 1))
             last == q[Len(q)]
         IN  IF \E j \in 1..Len(front) : front[j] = last
             THEN front ELSE Append(front, last)

Values(q) == {q[j] : j \in 1..Len(q)}

ReplacementAt(j) == endpoints[((j - 1) % Len(endpoints)) + 1]

\* C3 as stated: one replacement per distinct original, the k-th distinct
\* original (by first occurrence) mapped to replacement (k-1) mod L, with or
\* without duplicates in the collected list.
C3_FirstOccurrenceOrder ==
    (tool = "sub" /\ pc = "save") =>
        LET firsts == FirstOccurrences(existing_urls)
        IN  /\ DOMAIN url_mapping = Values(existing_urls)
            /\ \A k \in 1..Len(firsts) : url_mapping[firsts[k]] = ReplacementAt(k)

\* C3 amended: the map has exactly the distinct collected values as keys, each
\* with the replacement drawn at one of its occurrences; when the collected
\* list has no duplicates the k-th value has replacement (k-1) mod L.
C3_OnePerDistinctOriginal ==
    (tool = "sub" /\ pc = "save") =>
        /\ DOMAIN url_mapping = Values(existing_urls)
        /\ \A v \in DOMAIN url_mapping :
              \E j \in 1..Len(existing_urls) :
                  existing_urls[j] = v /\ url_mapping[v] = ReplacementAt(j)
        /\ Distinct(existing_urls) =>
              \A k \in 1..Len(existing_urls) :
                  url_mapping[existing_urls[k]] = ReplacementAt(k)

\* C3 witness: two distinct originals, two replacements, assigned in order.
C3_Witness ==
    /\ tool = "sub" /\ pc = "save"
    /\ existing_urls = <<"u1", "u2">>
    /\ endpoints = <<"n1", "n2">>
    /\ url_mapping["u1"] = "n1" /\ url_mapping["u2"] = "n2"

UnderUrlOrHost(e) == (e.k = "url" \/ e.k = "host") /\ e.v.t = "str"

RECURSIVE Rewritten(_, _, _)
\* out has the shape of in, every string under url or host replaced by its
\* value in m, everything else equal.
Rewritten(in, out, m) ==
    IF in.t = "map"
    THEN /\ out.t = "map"
         /\ Len(out.kv) = Len(in.kv)
         /\ \A j \in 1..Len(in.kv) :
              /\ out.kv[j].k = in.kv[j].k
              /\ IF UnderUrlOrHost(in.kv[j])
                 THEN /\ in.kv[j].v.s \in DOMAIN m
                      /\ out.kv[j].v = StrNode(m[in.kv[j].v.s])
                 ELSE Rewritten(in.kv[j].v, out.kv[j].v, m)
    ELSE IF in.t = "seq"
    THEN /\ out.t = "seq"
         /\ Len(out.items) = Len(in.items)
         /\ \A j \in 1..Len(in.items) : Rewritten(in.items[j], out.items[j], m)
    ELSE out = in

\* C4: the result of replace_urls_in_config has the shape of the input, every
\* string value under a url or host key at any depth replaced by its value in
\* the substitution map, every other value equal; the input tree never changes.
C4_SameShapeOnlyUrlsReplaced ==
    /\ [](tool = "sub" /\ pc \in {"save", "exit"} /\ existing_urls # <<>> =>
            Rewritten(yaml_data, modified_data, url_mapping))
    /\ [][yaml_data' = yaml_data]_vars

\* C4 witness: a tree with a host and a url two mappings deep, next to a
\* name and a port that stay as they are.
C4_Witness ==
    /\ tool = "sub" /\ pc = "save"
    /\ Len(yaml_data.kv[1].v.items) = 2
    /\ yaml_data.kv[1].v.items[2] =
          MapNode(<<Entry("name", StrNode("u1")),
                    Entry("config", MapNode(<<Entry("host", StrNode("u2")),
                                              Entry("port", IntNode(7)),
                                              Entry("url", StrNode("u1"))>>))>>)
    /\ modified_data # yaml_data

\* C5: with S >= 1 existing monitors and target T >= S the expansion gives
\* exactly T definitions, the first S the existing ones in order, and position
\* S+i a copy of existing definition i mod S differing only in its name.
C5_ExpansionCyclesExisting ==
    (tool = "expand" /\ pc = "write") =>
        LET existing == GetMonitors(data)
            S == Len(existing)
            T == total_monitors_required
        IN  (S >= 1 /\ T >= S) =>
                /\ Len(all_monitors) = T
                /\ \A k \in 1..S : all_monitors[k] = existing[k]
                /\ \A i \in 0..(T - S - 1) :
                      DiffersOnlyInName(all_monitors[S + i + 1], existing[(i % S) + 1])

\* C5 witness: S = 2, T = 5, the two existing monitors of different types.
C5_Witness ==
    /\ tool = "expand" /\ pc = "write"
    /\ Len(GetMonitors(data)) = 2 /\ total_monitors_required = 5
    /\ data.monitors[1].type # data.monitors[2].type
    /\ Len(all_monitors) = 5

\* C6: after target-count expansion of existing monitors with pairwise
\* distinct names, all names in the output are pairwise distinct.
C6_ExpansionNamesDistinct ==
    (tool = "expand" /\ pc = "write"
        /\ Named(GetMonitors(data)) /\ Distinct(NamesOf(GetMonitors(data)))) =>
            Distinct(NamesOf(all_monitors))

ReplicationDone == tool = "repl" /\ pc = "write"

\* C7: replication of S originals with factor R >= 1 gives exactly R x S
\* definitions, pass 1 first, each pass in original order, each definition a
\* copy of its original differing only in its name, which is the original
\* name followed by the pass index; no definition keeps its original name.
C7_ReplicationPasses ==
    ReplicationDone =>
        LET originals == data.monitors
            S == Len(originals)
        IN  /\ replications >= 1
            /\ Len(replicated_monitors) = replications * S
            /\ \A i \in 1..replications : \A k \in 1..S :
                  LET copy == replicated_monitors[(i - 1) * S + k]
                  IN  /\ DiffersOnlyInName(copy, originals[k])
                      /\ "name" \in DOMAIN originals[k] =>
                            /\ copy.name = originals[k].name \o " - Copy " \o ToString(i)
                            /\ copy.name # originals[k].name

\* C7 witness: two passes over two named originals.
C7_Witness ==
    /\ ReplicationDone
    /\ replications = 2 /\ Len(data.monitors) = 2 /\ Named(data.monitors)
    /\ data.monitors[1] # data.monitors[2]
    /\ Len(replicated_monitors) = 4

DistinctlyNamedOriginals ==
    ReplicationDone /\ Named(data.monitors) /\ Distinct(NamesOf(data.monitors))

\* C8 as stated: after replication of monitors with pairwise distinct names no
\* two output names are equal and no output name equals the name of any
\* original monitor.
C8_NoOutputNameIsAnOriginalName ==
    DistinctlyNamedOriginals =>
        /\ Distinct(NamesOf(replicated_monitors))
        /\ \A j \in 1..Len(replicated_monitors) : \A k \in 1..Len(data.monitors) :
              replicated_monitors[j].name # data.monitors[k].name

\* C8 amended: after replication of monitors with pairwise distinct names no
\* two output names are equal and no output name equals the name of the
\* original it was copied from.
C8_OutputNamesDistinct ==
    DistinctlyNamedOriginals =>
        LET S == Len(data.monitors)
        IN  /\ Distinct(NamesOf(replicated_monitors))
            /\ \A j \in 1..Len(replicated_monitors) :
                  replicated_monitors[j].name # data.monitors[((j - 1) % S) + 1].name

\* C8 witness: two passes over two distinctly named originals.
C8_Witness ==
    /\ DistinctlyNamedOriginals
    /\ replications = 2
    /\ NamesOf(data.monitors) = <<"A", "B">>
    /\ NamesOf(replicated_monitors) =
          <<"A - Copy 1", "B - Copy 1", "A - Copy 2", "B - Copy 2">>

\* missing scheme, missing authority, or no port on a scheme other than http/https
Malformed(line) ==
    \/ line.scheme = ""
    \/ line.netloc = ""
    \/ line.port = <<>> /\ line.scheme # "http" /\ line.scheme # "https"

HasMalformedLine ==
    tool = "gen" /\ \E p \in 1..Len(raw_endpoints) : Malformed(raw_endpoints[p])

GenStep == GenStart \/ GenParseNext \/ GenBuild \/ GenWrite

\* C9: with a malformed line anywhere in the batch the run ends in an error
\* and writes no document; a document is written only after every line has
\* parsed and all monitors have been built.
C9_MalformedLineAbortsBatch ==
    /\ HasMalformedLine =>
          /\ written = <<>>
          /\ pc # "write"
          /\ pc = "exit" => (exit_code = 1 /\ report.stream = "stderr")
          /\ pc # "exit" => ENABLED GenStep
    /\ (tool = "gen" /\ written # <<>>) =>
          /\ Len(parsed) = Len(raw_endpoints)
          /\ Len(monitors) = Len(raw_endpoints)
          /\ \A p \in 1..Len(raw_endpoints) : ~Malformed(raw_endpoints[p])

\* C9 witness: the last of ten lines lacks its port; nine lines had parsed
\* when the run ended in the error.
C9_Witness ==
    /\ HasMalformedLine
    /\ Len(raw_endpoints) = 10 /\ raw_endpoints[10].raw = "tcp://c"
    /\ Len(parsed) = 9
    /\ pc = "exit" /\ exit_code = 1 /\ written = <<>>

EmptyInput ==
    \/ tool \in {"expand", "repl"} /\ GetMonitors(data) = <<>>
    \/ tool = "gen" /\ raw_endpoints = <<>>
    \/ tool = "sub" /\ endpoints = <<>>

\* C10: in every transformation, with zero monitors or zero endpoints as input
\* the run reports it and ends without writing an output document.
C10_EmptyInputWritesNothing ==
    (EmptyInput /\ tool # "dist") =>
        /\ written = <<>>
        /\ pc = "exit" => report # NoReport


NoReplacementsButMatches ==
    tool = "sub" /\ endpoints = <<>> /\ find_urls_in_config(yaml_data) # <<>>

\* C11: in a substitute-endpoints run with an empty replacement source and a
\* document holding at least one string under a url or host key, the run ends
\* in an error and writes no document, substituted in part or in whole.
C11_NoReplacementsIsAnError ==
    NoReplacementsButMatches =>
        /\ written = <<>>
        /\ modified_data = EmptyTree
        /\ pc \in {"start", "exit"}
        /\ pc = "start" => ENABLED SubLoadEndpoints
        /\ pc = "exit" => (exit_code = 1 /\ report.stream = "stderr")

\* C11 witness: the run has ended in the error, the document holding url and
\* host strings two mappings deep.
C11_Witness ==
    /\ NoReplacementsButMatches
    /\ Len(find_urls_in_config(yaml_data)) >= 2
    /\ pc = "exit" /\ exit_code = 1
    /\ report = Stderr("Error: No endpoints found.")
    /\ written = <<>>


NothingToReplace ==
    tool = "sub" /\ endpoints # <<>> /\ find_urls_in_config(yaml_data) = <<>>

\* C12 as stated: with no string under a url or host key (and replacements
\* at hand) the finished run has written a copy of the document equal to the
\* input, and reports 'nothing to do' rather than an error.
C12_NoMatchesWritesCopy ==
    (NothingToReplace /\ pc = "exit") =>
        /\ written = <<yaml_data>>
        /\ exit_code = 0 /\ report.stream = "stdout"

\* C12 amended: with no string under a url or host key (and replacements at
\* hand) the run writes no document at all; it reports 'No URLs/hosts found to
\* replace' on stdout and exits 0, not an error.  replace_urls_in_config
\* itself, applied to such a document, returns a tree equal to it.
C12_NoMatchesWritesNothing ==
    NothingToReplace =>
        /\ written = <<>>
        /\ pc \in {"start", "load", "find", "exit"}
        /\ pc = "exit" =>
              /\ exit_code = 0
              /\ report = Stdout("No URLs/hosts found to replace. Exiting.")
        /\ replace_urls_in_config(yaml_data, <<>>, endpoints) = yaml_data

\* C12 witness: a document of two monitors, a non-string under url and a
\* string under name, has been searched and the run has returned.
C12_Witness ==
    /\ NothingToReplace /\ pc = "exit"
    /\ yaml_data.kv[1].v.items =
          <<MapNode(<<Entry("url", IntNode(7))>>),
            MapNode(<<Entry("name", StrNode("u1"))>>)>>
    /\ existing_urls = <<>>
    /\ written = <<>>


\* floor(n * tenths / 10)
BaseShare(n, tenths) ==
    CHOOSE f \in 0..n : 10 * f <= tenths * n /\ tenths * n < 10 * (f + 1)

Shortfall(n) == n - (BaseShare(n, 8) + BaseShare(n, 1) + BaseShare(n, 1))

\* The shortfall handed out one unit at a time in the order http, tcp, icmp.
ReferenceDistribution(n) ==
    <<BaseShare(n, 8) + (IF Shortfall(n) >= 1 THEN 1 ELSE 0),
      BaseShare(n, 1) + (IF Shortfall(n) >= 2 THEN 1 ELSE 0),
      BaseShare(n, 1)>>

\* C13: the shortfall of the three floor shares is at most 2, and the counts
\* are the floor shares plus one for http when the shortfall is at least 1 and
\* plus one for tcp when it is 2; 10 gives (8, 1, 1) and 7 gives (6, 1, 0).
C13_ShortfallHandedToHttpThenTcp ==
    DistributionComputed =>
        /\ Shortfall(DistributedTotal) \in 0..2
        /\ counts = ReferenceDistribution(DistributedTotal)
        /\ DistributedTotal = 10 => counts = <<8, 1, 1>>
        /\ DistributedTotal = 7 => counts = <<6, 1, 0>>

\* C13 witness: total 16 has floor shares 12, 1, 1 and a shortfall of 2.
C13_Witness ==
    /\ tool = "dist" /\ pc = "done" /\ total = 16
    /\ Shortfall(total) = 2
    /\ counts = <<13, 2, 1>>


TypeAt(k) == monitors[k].pulse_check.type

NamePrefix(type) ==
    CASE type = "http" -> "HTTP" [] type = "tcp" -> "TCP" [] type = "icmp" -> "Ping"

\* The name of monitor k carries index idx (and the port of its endpoint).
NameCarries(k, idx) ==
    monitors[k].name = NamePrefix(TypeAt(k)) \o " Monitor " \o Pad05d(idx)
                          \o " (port " \o ToString(parsed[k].port) \o ")"

NameIndex(k) == CHOOSE idx \in 1..Len(monitors) : NameCarries(k, idx)

\* Position of monitor k within the monitors of its type.
RankInType(k) == Cardinality({j \in 1..k : TypeAt(j) = TypeAt(k)})

ContiguousFromOnePerType ==
    \A k \in 1..Len(monitors) :
        /\ \E idx \in 1..Len(monitors) : NameCarries(k, idx)
        /\ NameIndex(k) = RankInType(k)

\* C14 as stated: the indices are contiguous from 1 within each type group,
\* and no index value used by a monitor of one type is used by a monitor of
\* another type.
C14_IndicesDisjointAcrossTypes ==
    GenBuilt =>
        /\ ContiguousFromOnePerType
        /\ \A a, b \in 1..Len(monitors) :
              TypeAt(a) # TypeAt(b) => NameIndex(a) # NameIndex(b)

\* C14 amended: the indices are contiguous from 1 within each type group; the
\* numbering restarts at 1 for every type, so monitors at the same rank of
\* different types carry the same index.
C14_IndicesRestartPerType ==
    GenBuilt =>
        /\ ContiguousFromOnePerType
        /\ \A a, b \in 1..Len(monitors) :
              (TypeAt(a) # TypeAt(b) /\ RankInType(a) = RankInType(b)) =>
                  NameIndex(a) = NameIndex(b)

\* C14 witness: ten endpoints; the eighth HTTP monitor has index 8, the first
\* TCP and the first ICMP monitor both have index 1.
C14_Witness ==
    /\ GenBuilt /\ Len(monitors) = 10
    /\ TypeAt(8) = "http" /\ NameIndex(8) = 8
    /\ TypeAt(9) = "tcp" /\ NameIndex(9) = 1
    /\ TypeAt(10) = "icmp" /\ NameIndex(10) = 1
    /\ monitors[9].name = "TCP Monitor 00001 (port 9000)"


\* 1-based position of the last occurrence of v in existing_urls.
LastOccurrence(v) ==
    CHOOSE j \in 1..Len(existing_urls) :
        /\ existing_urls[j] = v
        /\ \A i \in (j + 1)..Len(existing_urls) : existing_urls[i] # v

\* Number of positions of q holding n.
Occurrences(q, n) == Cardinality({k \in 1..Len(q) : q[k] = n})

Substituted == tool = "sub" /\ (pc = "save" \/ (pc = "exit" /\ written # <<>>))

\* C15: one replacement is drawn per collected occurrence, duplicates
\* included, and a later draw overwrites an earlier one: each original v ends
\* up with replacement element j mod L, j the 0-based position of the last
\* occurrence of v in the collected list, and every occurrence of v in the
\* output carries that one value: in the returned tree position by position,
\* in the written document (its mappings' keys sorted) occurrence for
\* occurrence.
C15_LastOccurrenceWins ==
    Substituted =>
        /\ \A v \in Values(existing_urls) :
              url_mapping[v] = endpoints[((LastOccurrence(v) - 1) % Len(endpoints)) + 1]
        /\ find_urls_in_config(modified_data) =
              [k \in 1..Len(existing_urls) |->
                  endpoints[((LastOccurrence(existing_urls[k]) - 1) % Len(endpoints)) + 1]]
        /\ pc = "exit" =>
              /\ Len(written) = 1
              /\ \A n \in Values(endpoints) \cup Values(existing_urls) :
                    Occurrences(find_urls_in_config(written[1]), n) =
                        Occurrences([k \in 1..Len(existing_urls) |->
                                        url_mapping[existing_urls[k]]], n)
              /\ Len(find_urls_in_config(written[1])) = Len(existing_urls)

\* C15 witness: u1 collected first and third, three replacements: u1 gets the
\* third, and both its occurrences in the written document carry it.
C15_Witness ==
    /\ Substituted /\ pc = "exit"
    /\ existing_urls = <<"u1", "u2", "u1">>
    /\ endpoints = <<"n1", "n2", "n3">>
    /\ url_mapping["u1"] = "n3"
    /\ find_urls_in_config(written[1]) = <<"n3", "n2", "n3">>

====
